---- MODULE Spec2Model ----
(***************************************************************************)
(* Model of sales_analytics.py: the SalesAnalytics class (two extraction   *)
(* paths over the tables Customer, Sales, Orders, Items, the CSV sink, the *)
(* reconciliation) and main(), which sequences them.                       *)
(*                                                                         *)
(* A nullable column value is a set: {} is NULL, {v} is the value v.       *)
(* A quantity is a fixed-point number counted in units of 1/Scale, so that *)
(* non-integer quantities (0.5, 1.5) and the integer cast are exact.       *)
(***************************************************************************)
EXTENDS Integers, Sequences, FiniteSets, TLC

VARIABLES Customer, Sales, Orders, Items,
          connection, closeCalls, pc,
          sql_results, pandas_results, pandas_age_dtype,
          files, console, trace, raised

vars == <<Customer, Sales, Orders, Items, connection, closeCalls, pc,
          sql_results, pandas_results, pandas_age_dtype,
          files, console, trace, raised>>

tables == <<Customer, Sales, Orders, Items>>

-----------------------------------------------------------------------------
(* Bounds of the model.                                                    *)

MaxCustomers == 2
MaxSales == 2
MaxItems == 2
MaxOrders == 2
MainOrders == 1
Scale == 2

(* Program constants: the age band of the query and of the pandas mask.    *)
MinAge == 18
MaxAge == 35

CustomerIds == 1..MaxCustomers
SalesIds == 1..MaxSales
ItemIds == 1..MaxItems
\* item_id MaxItems + 1 is referenced by orders but is in no Items row
OrderItemIds == 1..(MaxItems + 1)

Null == {}
Ages == {MinAge - 1, MinAge, MaxAge, MaxAge + 1}
AgeValues == {Null} \cup {{a} : a \in Ages}

\* -1, 0, 1/Scale, 1 + 1/Scale and 2, in units of 1/Scale
Quantities == {0 - Scale, 0, 1, Scale + 1, 2 * Scale}
QuantityValues == {Null} \cup {{q} : q \in Quantities}

\* item names, listed in the order both sorts give them (code-point order)
NameOrder == <<"Gadget", "Widget">>
Names == {NameOrder[i] : i \in DOMAIN NameOrder}
NameRank(n) == CHOOSE i \in DOMAIN NameOrder : NameOrder[i] = n

OrderRows == [sales_id : SalesIds, item_id : OrderItemIds, quantity : QuantityValues]
OrderTables(n) == UNION {[1..m -> OrderRows] : m \in 0..n}

ValueOf(x) == CHOOSE v \in x : TRUE

-----------------------------------------------------------------------------
(* Helpers shared by the two extraction paths: summation, cast, ordering.  *)

RECURSIVE SumQuantity(_)
SumQuantity(J) ==
    IF J = {} THEN 0
    ELSE LET j == CHOOSE x \in J : TRUE
         IN ValueOf(Orders[j[3]].quantity) + SumQuantity(J \ {j})

\* CAST(x AS INTEGER) and astype(int): truncation toward zero
CastInteger(h) == IF h >= 0 THEN h \div Scale ELSE 0 - ((0 - h) \div Scale)

RowLess(r1, r2) ==
    \/ r1.customer_id < r2.customer_id
    \/ /\ r1.customer_id = r2.customer_id
       /\ NameRank(r1.item_name) < NameRank(r2.item_name)

RowLessEq(r1, r2) == ~RowLess(r2, r1)

RECURSIVE SortRows(_)
SortRows(R) ==
    IF R = {} THEN <<>>
    ELSE LET m == CHOOSE x \in R : \A y \in R : RowLessEq(x, y)
         IN <<m>> \o SortRows(R \ {m})

RowSet(s) == {s[i] : i \in DOMAIN s}

-----------------------------------------------------------------------------
(* extract_data_sql_approach: the query, clause by clause.                 *)

\* FROM Customer c INNER JOIN Sales s ... INNER JOIN Orders o ... INNER JOIN Items i
\* a joined row is <<customer_id, sales_id, index of the Orders row, item_id>>
SqlJoin ==
    {j \in CustomerIds \X SalesIds \X (DOMAIN Orders) \X ItemIds :
        /\ Sales[j[2]] = j[1]
        /\ Orders[j[3]].sales_id = j[2]
        /\ Orders[j[3]].item_id = j[4]}

\* c.age BETWEEN 18 AND 35 (NULL BETWEEN ... is not true)
SqlAgeBetween(age) == \E a \in age : a >= MinAge /\ a <= MaxAge

\* o.quantity IS NOT NULL, the test o.quantity > 0 left out
SqlQuantityNotNull(q) == q # Null

\* o.quantity IS NOT NULL AND o.quantity > 0
SqlQuantityPositive(q) == q # Null /\ \E v \in q : v > 0

SqlWhere(j) ==
    /\ SqlAgeBetween(Customer[j[1]])
    /\ SqlQuantityPositive(Orders[j[3]].quantity)

\* GROUP BY c.customer_id, c.age, i.item_name
SqlGroupKey(j) == <<j[1], Customer[j[1]], Items[j[4]]>>

SqlGroups == {SqlGroupKey(j) : j \in {x \in SqlJoin : SqlWhere(x)}}

SqlGroupRows(g) == {j \in SqlJoin : SqlWhere(j) /\ SqlGroupKey(j) = g}

\* HAVING SUM(o.quantity) > 0: on the sum itself, before the cast
SqlHaving(g) == SumQuantity(SqlGroupRows(g)) > 0

\* SELECT c.customer_id, c.age, i.item_name, CAST(SUM(o.quantity) AS INTEGER)
SqlSelect(g) ==
    [customer_id |-> g[1], age |-> ValueOf(g[2]), item_name |-> g[3],
     total_quantity |-> CastInteger(SumQuantity(SqlGroupRows(g)))]

\* ORDER BY i.item_name, c.customer_id: the two keys exchanged
RECURSIVE SortRowsByItem(_)
SortRowsByItem(R) ==
    IF R = {} THEN <<>>
    ELSE LET m == CHOOSE x \in R : \A y \in R :
                     \/ NameRank(x.item_name) < NameRank(y.item_name)
                     \/ /\ x.item_name = y.item_name
                        /\ x.customer_id <= y.customer_id
         IN <<m>> \o SortRowsByItem(R \ {m})

\* ORDER BY c.customer_id, i.item_name
SqlOrderBy(R) == SortRows(R)

SqlQuery == SqlOrderBy({SqlSelect(g) : g \in {x \in SqlGroups : SqlHaving(x)}})

-----------------------------------------------------------------------------
(* extract_data_pandas_approach: the pipeline, stage by stage.             *)

\* the mask with > in place of >=
AgeMaskStrict(age) == (\E a \in age : a > MinAge) /\ (\E a \in age : a <= MaxAge)

\* (customers_df['age'] >= 18) & (customers_df['age'] <= 35); NaN compares False
AgeMask(age) == (\E a \in age : a >= MinAge) /\ (\E a \in age : a <= MaxAge)

customers_filtered == {c \in CustomerIds : AgeMask(Customer[c])}

\* .merge(sales_df, on='customer_id'): inner join
MergeSales(L) == {m \in L \X SalesIds : Sales[m[2]] = m[1]}

\* .merge(orders_df, on='sales_id'): inner join
MergeOrders(L) ==
    {m \in CustomerIds \X SalesIds \X (DOMAIN Orders) :
        <<m[1], m[2]>> \in L /\ Orders[m[3]].sales_id = m[2]}

\* the merge without its key: every row against every item
MergeItemsCross(L) ==
    {m \in CustomerIds \X SalesIds \X (DOMAIN Orders) \X ItemIds :
        <<m[1], m[2], m[3]>> \in L}

\* .merge(items_df, on='item_id'): inner join; the item_name column is Items[i]
MergeItems(L) ==
    {m \in CustomerIds \X SalesIds \X (DOMAIN Orders) \X ItemIds :
        <<m[1], m[2], m[3]>> \in L /\ Orders[m[3]].item_id = m[4]}

merged_df == MergeItems(MergeOrders(MergeSales(customers_filtered)))

\* (merged_df['quantity'].notna()) & (merged_df['quantity'] > 0)
QuantityMask(q) == q # Null /\ \E v \in q : v > 0

merged_positive == {m \in merged_df : QuantityMask(Orders[m[3]].quantity)}

\* .groupby(['customer_id', 'age', 'item_name'])['quantity'].sum().reset_index()
GroupKey(m) == <<m[1], ValueOf(Customer[m[1]]), Items[m[4]]>>

GroupBySum(M) ==
    {[customer_id |-> g[1], age |-> g[2], item_name |-> g[3],
      quantity |-> SumQuantity({m \in M : GroupKey(m) = g})] :
        g \in {GroupKey(m) : m \in M}}

\* result_df['quantity'].astype(int)
AsTypeInt(R) ==
    {[customer_id |-> r.customer_id, age |-> r.age, item_name |-> r.item_name,
      total_quantity |-> CastInteger(r.quantity)] : r \in R}

\* result_df[result_df['quantity'] > 0]: on the integer column
SafetyFilter(R) == {r \in R : r.total_quantity > 0}

\* .sort_values(['customer_id', 'item_name']).reset_index(drop=True)
SortValues(R) == SortRows(R)

PandasPipeline == SortValues(SafetyFilter(AsTypeInt(GroupBySum(merged_positive))))

\* dtype of the age column read_sql_query builds: int64 without NULLs,
\* float64 when NULLs and numbers mix, object when every age is NULL
AgeDtype ==
    IF \A c \in CustomerIds : Customer[c] # Null THEN "int64"
    ELSE IF \E c \in CustomerIds : Customer[c] # Null THEN "float64"
    ELSE "object"

-----------------------------------------------------------------------------
(* State of a run.                                                         *)
(*   connection        self.connection: "None", "open" or "closed"         *)
(*   closeCalls        number of calls of self.connection.close()          *)
(*   pc                position of main (or of the extraction harness)     *)
(*   files             the two CSV files of save_to_csv                    *)
(*   console           the messages printed, in order                      *)
(*   trace             the operations carried out, in order                *)
(*   raised            the fault each step raised, "none" when it did not  *)

Approaches == {"sql", "pandas"}
Steps == {"connect", "sql", "save_sql", "pandas", "save_pandas"}
Header == <<"Customer", "Age", "Item", "Quantity">>
NoFile == [written |-> FALSE, header |-> <<>>, rows |-> <<>>, age_dtype |-> "none"]

Tables(n) ==
    [Customer : [CustomerIds -> AgeValues],
     Sales : [SalesIds -> CustomerIds],
     Orders : OrderTables(n),
     Items : [ItemIds -> Names]]

InitRun(t, start) ==
    /\ Customer = t.Customer
    /\ Sales = t.Sales
    /\ Orders = t.Orders
    /\ Items = t.Items
    /\ connection = "None"
    /\ closeCalls = 0
    /\ pc = start
    /\ sql_results = <<>>
    /\ pandas_results = <<>>
    /\ pandas_age_dtype = "none"
    /\ files = [a \in Approaches |-> NoFile]
    /\ console = <<>>
    /\ trace = <<>>
    /\ raised = [s \in Steps |-> "none"]

\* __init__ followed by the start of main
Init == \E t \in Tables(MainOrders) : InitRun(t, "connect")

Say(msg) == console' = Append(console, msg)
Did(op) == trace' = Append(trace, op)
Raise(step, kind) == raised' = [raised EXCEPT ![step] = kind]

-----------------------------------------------------------------------------
(* connect_to_database, called by main.                                    *)

connect_to_database ==
    /\ pc = "connect"
    /\ \E fault \in {"none", "sqlite3.Error"} :
          /\ Raise("connect", fault)
          /\ IF fault = "none"
             THEN /\ connection' = "open"
                  /\ Say("Successfully connected to database")
                  /\ Did("open")
                  /\ pc' = "extract_sql"
             ELSE /\ connection' = connection
                  /\ console' = console \o <<"Error connecting to database",
                                             "Failed to connect to database">>
                  /\ trace' = trace
                  /\ pc' = "finally"
    /\ UNCHANGED <<tables, closeCalls, sql_results, pandas_results,
                   pandas_age_dtype, files>>

-----------------------------------------------------------------------------
(* analyze_sales_data, step by step.                                       *)

\* the write of the query result without the test of its emptiness
NextAfterSqlAlways(r) == "save_sql"

\* if sql_results: save_to_csv(...)
NextAfterSql(r) == IF r # <<>> THEN "save_sql" ELSE "extract_pandas"

\* the test with `or` in place of `and`
ShouldVerifyEither(s, p) == s # <<>> \/ p # <<>>

\* if sql_results and not pandas_results.empty: self._verify_results(...)
ShouldVerify(s, p) == s # <<>> /\ p # <<>>

NextAfterSaves(s, p) == IF ShouldVerify(s, p) THEN "verify" ELSE "summary"

\* if not pandas_results.empty: save_to_csv(...)
NextAfterPandas(s, p) == IF p # <<>> THEN "save_pandas" ELSE NextAfterSaves(s, p)

\* the extractor without its handler
SqlHandlerAbsent(fault) == "propagates"

\* the handler of extract_data_sql_approach is `except sqlite3.Error`: any other
\* exception leaves the extractor and analyze_sales_data and reaches main
SqlHandler(fault) == IF fault = "sqlite3.Error" THEN "caught" ELSE "propagates"

extract_data_sql_approach ==
    /\ pc = "extract_sql"
    /\ \E fault \in {"none", "sqlite3.Error", "Exception"} :
          /\ Raise("sql", fault)
          /\ IF fault = "none"
             THEN /\ sql_results' = SqlQuery
                  /\ Say("SQL Approach: Retrieved records")
                  /\ Did("sql_extract")
                  /\ pc' = NextAfterSql(sql_results')
             ELSE IF SqlHandler(fault) = "caught"
             THEN /\ sql_results' = <<>>
                  /\ Say("Error executing SQL query")
                  /\ Did("sql_extract")
                  /\ pc' = NextAfterSql(sql_results')
             ELSE /\ sql_results' = sql_results
                  /\ console' = console
                  /\ Did("sql_extract")
                  /\ pc' = "except"
    /\ UNCHANGED <<tables, connection, closeCalls, pandas_results,
                   pandas_age_dtype, files>>

\* the handler of extract_data_pandas_approach is `except Exception`
extract_data_pandas_approach ==
    /\ pc = "extract_pandas"
    /\ \E fault \in {"none", "Exception"} :
          /\ Raise("pandas", fault)
          /\ Did("pandas_extract")
          /\ IF fault = "none"
             THEN /\ pandas_results' = PandasPipeline
                  /\ pandas_age_dtype' = AgeDtype
                  /\ Say("Pandas Approach: Retrieved records")
             ELSE /\ pandas_results' = <<>>
                  /\ pandas_age_dtype' = pandas_age_dtype
                  /\ Say("Error in pandas approach")
          /\ pc' = NextAfterPandas(sql_results, pandas_results')
    /\ UNCHANGED <<tables, connection, closeCalls, sql_results, files>>

\* save_to_csv: the frame gets the four labels and is written with sep=';'
CsvFile(rows, dtype) ==
    [written |-> TRUE, header |-> Header, rows |-> rows, age_dtype |-> dtype]

save_to_csv(approach, step, rows, dtype, next) ==
    /\ \E fault \in {"none", "Exception"} :
          /\ Raise(step, fault)
          /\ IF fault = "none"
             THEN /\ files' = [files EXCEPT ![approach] = CsvFile(rows, dtype)]
                  /\ console' = console \o <<"Data successfully saved",
                                             "Preview of saved data">>
                  /\ Did(step)
             ELSE /\ files' = files
                  /\ Say("Error saving to CSV")
                  /\ Did(step)
    /\ pc' = next
    /\ UNCHANGED <<tables, connection, closeCalls, sql_results, pandas_results,
                   pandas_age_dtype>>

save_sql ==
    /\ pc = "save_sql"
    /\ save_to_csv("sql", "save_sql", sql_results, "int64", "extract_pandas")

save_pandas ==
    /\ pc = "save_pandas"
    /\ save_to_csv("pandas", "save_pandas", pandas_results, pandas_age_dtype,
                   NextAfterSaves(sql_results, pandas_results))

\* sql_df.equals(pandas_df) after both frames are sorted by (Customer, Item):
\* same rows in the same order and the same column dtypes
FramesEqual(s, p, dtype) ==
    /\ SortRows(RowSet(s)) = SortRows(RowSet(p))
    /\ dtype = "int64"

_verify_results ==
    /\ pc = "verify"
    /\ Did("verify")
    /\ IF FramesEqual(sql_results, pandas_results, pandas_age_dtype)
       THEN console' = console \o <<"VERIFICATION: Comparing Results",
                                    "Both approaches produce identical results!">>
       ELSE console' = console \o <<"VERIFICATION: Comparing Results",
                                    "Results differ between approaches">>
    /\ pc' = "summary"
    /\ UNCHANGED <<tables, connection, closeCalls, sql_results, pandas_results,
                   pandas_age_dtype, files, raised>>

-----------------------------------------------------------------------------
(* main: the summary after analyze_sales_data returns, the except clause,  *)
(* and the finally clause that calls close_connection.                     *)

report_summary ==
    /\ pc = "summary"
    /\ Say("ANALYSIS COMPLETE")
    /\ Did("summary")
    /\ pc' = "finally"
    /\ UNCHANGED <<tables, connection, closeCalls, sql_results, pandas_results,
                   pandas_age_dtype, files, raised>>

\* the except clause of a main whose close_connection call ends the try body
\* instead of standing in a finally clause
main_except_without_finally ==
    /\ pc = "except"
    /\ Say("An error occurred during analysis")
    /\ pc' = "done"
    /\ UNCHANGED <<tables, connection, closeCalls, sql_results, pandas_results,
                   pandas_age_dtype, files, trace, raised>>

main_except ==
    /\ pc = "except"
    /\ Say("An error occurred during analysis")
    /\ pc' = "finally"
    /\ UNCHANGED <<tables, connection, closeCalls, sql_results, pandas_results,
                   pandas_age_dtype, files, trace, raised>>

\* if self.connection: (None is falsy, a connection object is truthy)
HasConnection(c) == c # "None"

close_connection ==
    /\ pc = "finally"
    /\ IF HasConnection(connection)
       THEN /\ connection' = "closed"
            /\ closeCalls' = closeCalls + 1
            /\ Say("Database connection closed.")
            /\ Did("close")
       ELSE UNCHANGED <<connection, closeCalls, console, trace>>
    /\ pc' = "done"
    /\ UNCHANGED <<tables, sql_results, pandas_results, pandas_age_dtype,
                   files, raised>>

Next ==
    \/ connect_to_database
    \/ extract_data_sql_approach
    \/ save_sql
    \/ extract_data_pandas_approach
    \/ save_pandas
    \/ _verify_results
    \/ report_summary
    \/ main_except
    \/ close_connection

Spec == Init /\ [][Next]_vars

-----------------------------------------------------------------------------
(* The two extractors applied to one snapshot of the tables, without       *)
(* faults: the query first, the pandas pipeline second.                    *)

InitExtract == \E t \in Tables(MaxOrders) : InitRun(t, "query")

RunSqlQuery ==
    /\ pc = "query"
    /\ sql_results' = SqlQuery
    /\ Did("sql_extract")
    /\ pc' = "pipeline"
    /\ UNCHANGED <<tables, connection, closeCalls, pandas_results,
                   pandas_age_dtype, files, console, raised>>

RunPandasPipeline ==
    /\ pc = "pipeline"
    /\ pandas_results' = PandasPipeline
    /\ pandas_age_dtype' = AgeDtype
    /\ Did("pandas_extract")
    /\ pc' = "extracted"
    /\ UNCHANGED <<tables, connection, closeCalls, sql_results, files,
                   console, raised>>

NextExtract == RunSqlQuery \/ RunPandasPipeline

SpecExtract == InitExtract /\ [][NextExtract]_vars

-----------------------------------------------------------------------------
(* What the specification says of the tables, stated without the           *)
(* operators of the two extraction paths.                                  *)

Reachable(c, k) == \E s \in SalesIds : Sales[s] = c /\ Orders[k].sales_id = s

ItemNamed(k, n) == \E i \in ItemIds : Orders[k].item_id = i /\ Items[i] = n

PositiveOrder(k) == \E q \in Orders[k].quantity : q > 0

Contributing(c, n) ==
    {k \in DOMAIN Orders : Reachable(c, k) /\ ItemNamed(k, n) /\ PositiveOrder(k)}

RECURSIVE SumOrders(_)
SumOrders(K) ==
    IF K = {} THEN 0
    ELSE LET k == CHOOSE x \in K : TRUE
         IN ValueOf(Orders[k].quantity) + SumOrders(K \ {k})

\* t is the integer part of the non-negative fixed-point number h
IsIntegerPartOf(t, h) == t * Scale <= h /\ h < (t + 1) * Scale

InBand(c) == \E a \in Customer[c] : 18 <= a /\ a <= 35

SqlRan == pc \in {"pipeline", "extracted"}
PandasRan == pc = "extracted"

OutputRows == RowSet(sql_results) \cup RowSet(pandas_results)
OutputSeqs == {sql_results, pandas_results}

-----------------------------------------------------------------------------
(* C1. For every set of tables, once both extractions have succeeded the   *)
(* query and the pandas pipeline return the same set of rows.              *)
C1_Equivalence == PandasRan => RowSet(sql_results) = RowSet(pandas_results)

(* C2, as stated. Every output row (c, a, n, t) of either extractor has t  *)
(* equal to the sum of the quantities of the orders reachable from c       *)
(* through a Sales record that reference an item named n and have a        *)
(* non-null quantity > 0. It is stated of the rows with t > 0, the rows C3 *)
(* admits, so that a violation does not rest on a row with a zero total.   *)
C2_TotalIsExactSum ==
    \A r \in OutputRows :
        r.total_quantity > 0 =>
            r.total_quantity * Scale =
                SumOrders(Contributing(r.customer_id, r.item_name))

(* C2, amended. Every output row (c, a, n, t) of either extractor has a    *)
(* the age of customer c and t the integer part of the sum of the          *)
(* quantities of exactly the orders reachable from c through a Sales       *)
(* record that reference an item named n and have a non-null quantity > 0. *)
C2_TotalIsTruncatedSum ==
    \A r \in OutputRows :
        /\ Customer[r.customer_id] = {r.age}
        /\ IsIntegerPartOf(r.total_quantity,
                           SumOrders(Contributing(r.customer_id, r.item_name)))

\* the pandas path returned a row whose single contributing order has a
\* non-integer quantity, next to an order of the same customer that is excluded
C2_Witness ==
    /\ PandasRan
    /\ \E r \in RowSet(pandas_results) :
          /\ r \in RowSet(sql_results)
          /\ r.total_quantity * Scale #
                SumOrders(Contributing(r.customer_id, r.item_name))
          /\ \E k \in DOMAIN Orders :
                /\ Reachable(r.customer_id, k)
                /\ ItemNamed(k, r.item_name)
                /\ \E q \in Orders[k].quantity : q < 0

(* C3. Every row of either extractor has a total_quantity > 0, and a       *)
(* (customer, item) pair whose orders all have a null or non-positive      *)
(* quantity has no row.                                                    *)
C3_QuantityPositive ==
    /\ \A r \in OutputRows : r.total_quantity > 0
    /\ \A r \in OutputRows : Contributing(r.customer_id, r.item_name) # {}

(* C4. No row of either extractor has age < 18 or age > 35; a customer     *)
(* whose age is null or outside the band has no row; the ages 18 and 35    *)
(* are inside the band: such a customer with purchases that sum to at      *)
(* least one unit of an item has a row in each result.                     *)
C4_AgeFilter ==
    /\ \A r \in OutputRows :
          /\ 18 <= r.age /\ r.age <= 35
          /\ Customer[r.customer_id] = {r.age}
    /\ \A c \in CustomerIds :
          ~InBand(c) => \A r \in OutputRows : r.customer_id # c
    /\ \A c \in CustomerIds, n \in Names :
          (Customer[c] \in {{18}, {35}} /\ SumOrders(Contributing(c, n)) >= Scale)
          => /\ SqlRan => \E r \in RowSet(sql_results) :
                             r.customer_id = c /\ r.item_name = n
             /\ PandasRan => \E r \in RowSet(pandas_results) :
                                r.customer_id = c /\ r.item_name = n

\* both results hold a row of a customer aged 18 while the other customer,
\* aged 36 or of unknown age, has a purchase that would otherwise count
C4_Witness ==
    /\ PandasRan
    /\ \E r \in RowSet(pandas_results) : r.age = 18 /\ r \in RowSet(sql_results)
    /\ \E c \in CustomerIds, n \in Names :
          /\ Customer[c] \in {Null, {36}}
          /\ SumOrders(Contributing(c, n)) >= Scale

(* C5. Inner joins: every output row comes from an order that is matched   *)
(* at every stage (its Sales record belongs to the row's customer and its  *)
(* item_id is in Items), an order that is not matched adds nothing to a    *)
(* total, and a customer without a Sales record, or whose Sales records    *)
(* have no order, or whose orders reference no existing item, has no row.  *)
MatchedOrders(c) ==
    {k \in DOMAIN Orders : Reachable(c, k) /\ Orders[k].item_id \in ItemIds}

C5_InnerJoin ==
    /\ \A r \in OutputRows :
          /\ \E k \in MatchedOrders(r.customer_id) :
                Items[Orders[k].item_id] = r.item_name
          /\ r.total_quantity * Scale <=
                SumOrders({k \in MatchedOrders(r.customer_id) :
                              /\ Items[Orders[k].item_id] = r.item_name
                              /\ PositiveOrder(k)})
    /\ \A c \in CustomerIds :
          MatchedOrders(c) = {} => \A r \in OutputRows : r.customer_id # c

\* one customer has no Sales record, one Sales record has no order, one order
\* with a positive quantity references no item, and both results have a row
C5_Witness ==
    /\ PandasRan
    /\ sql_results # <<>> /\ pandas_results # <<>>
    /\ \E c \in CustomerIds : InBand(c) /\ \A s \in SalesIds : Sales[s] # c
    /\ \E s \in SalesIds : \A k \in DOMAIN Orders : Orders[k].sales_id # s
    /\ \E k \in DOMAIN Orders :
          /\ Orders[k].item_id \notin ItemIds
          /\ PositiveOrder(k)
          /\ InBand(Sales[Orders[k].sales_id])

(* C6. Each result is in strictly ascending order of (customer_id,         *)
(* item_name): it is non-decreasing and no pair occurs twice.              *)
C6_Sorted ==
    \A s \in OutputSeqs : \A i, j \in DOMAIN s :
        i < j => \/ s[i].customer_id < s[j].customer_id
                 \/ /\ s[i].customer_id = s[j].customer_id
                    /\ NameRank(s[i].item_name) < NameRank(s[j].item_name)

\* both results have two rows, and the Orders table lists them in the
\* opposite order
C6_Witness ==
    /\ PandasRan
    /\ Len(sql_results) = 2 /\ Len(pandas_results) = 2
    /\ Len(Orders) = 2
    /\ \/ Sales[Orders[1].sales_id] > Sales[Orders[2].sales_id]
       \/ /\ Sales[Orders[1].sales_id] = Sales[Orders[2].sales_id]
          /\ Orders[1].item_id \in ItemIds /\ Orders[2].item_id \in ItemIds
          /\ NameRank(Items[Orders[1].item_id]) > NameRank(Items[Orders[2].item_id])

-----------------------------------------------------------------------------
(* Claims about main and analyze_sales_data.                               *)

Happened(op) == \E i \in DOMAIN trace : trace[i] = op
Count(op) == Cardinality({i \in DOMAIN trace : trace[i] = op})
Printed(msg) == \E i \in DOMAIN console : console[i] = msg
TimesPrinted(msg) == Cardinality({i \in DOMAIN console : console[i] = msg})
Ended == pc = "done"

(* C7. When the connection was opened it has been released exactly once by *)
(* the time the run ends, on every exit path, and never more than once;    *)
(* when the open failed close_connection releases nothing.                 *)
C7_ReleasedOnce ==
    /\ closeCalls <= 1
    /\ Count("close") = closeCalls
    /\ Ended /\ Happened("open") => closeCalls = 1 /\ connection = "closed"
    /\ Ended /\ ~Happened("open") => closeCalls = 0 /\ connection = "None"

\* the run ended with the connection released after an exception that the
\* query extractor did not catch
C7_Witness ==
    /\ Ended
    /\ raised["sql"] = "Exception"
    /\ Printed("An error occurred during analysis")
    /\ closeCalls = 1 /\ connection = "closed"

(* C8, as stated. Any fault raised in either extraction path is caught in  *)
(* the extractor, reported and replaced by an empty result, and the run    *)
(* continues: after a fault of the query the pandas extraction is still    *)
(* executed, and no file is written for the failed path.                   *)
C8_AnyFaultSoftFails ==
    /\ Ended /\ raised["sql"] # "none" =>
          /\ sql_results = <<>>
          /\ Printed("Error executing SQL query")
          /\ ~files["sql"].written
          /\ Happened("pandas_extract")
          /\ Happened("summary")
    /\ Ended /\ raised["pandas"] # "none" =>
          /\ pandas_results = <<>>
          /\ Printed("Error in pandas approach")
          /\ ~files["pandas"].written
          /\ Happened("summary")

(* C8, amended. A sqlite3.Error raised in the query extractor, and any     *)
(* Exception raised in the pandas extractor, is caught in the extractor,   *)
(* reported and replaced by an empty result, and the run continues to the  *)
(* summary with no file written for the failed path and no reconciliation. *)
(* An exception of another class raised in the query extractor is not      *)
(* caught there: main reports it, and neither the pandas extraction nor    *)
(* the summary is executed.                                                *)
C8_SoftFail ==
    /\ Ended /\ raised["sql"] = "sqlite3.Error" =>
          /\ sql_results = <<>>
          /\ Printed("Error executing SQL query")
          /\ ~files["sql"].written
          /\ Happened("pandas_extract")
          /\ ~Happened("verify")
          /\ Happened("summary")
    /\ Ended /\ raised["pandas"] = "Exception" =>
          /\ pandas_results = <<>>
          /\ Printed("Error in pandas approach")
          /\ ~files["pandas"].written
          /\ ~Happened("verify")
          /\ Happened("summary")
    /\ Ended /\ raised["sql"] = "Exception" =>
          /\ Printed("An error occurred during analysis")
          /\ ~Happened("pandas_extract")
          /\ ~Happened("summary")

\* the query failed with a sqlite3.Error and the pandas extraction then
\* returned rows, which were written
C8_Witness ==
    /\ Ended
    /\ raised["sql"] = "sqlite3.Error"
    /\ pandas_results # <<>>
    /\ files["pandas"].written

(* C9. The reconciliation is attempted if and only if both extractions     *)
(* returned a non-empty result; when it is not attempted no verdict is     *)
(* printed, and when it is attempted exactly one verdict is printed.       *)
Verdicts ==
    TimesPrinted("Both approaches produce identical results!")
    + TimesPrinted("Results differ between approaches")

C9_Reconciliation ==
    /\ Count("verify") <= 1
    /\ Happened("verify") => sql_results # <<>> /\ pandas_results # <<>>
    /\ Ended /\ sql_results # <<>> /\ pandas_results # <<>> => Happened("verify")
    /\ Verdicts = Count("verify")
    /\ TimesPrinted("VERIFICATION: Comparing Results") = Count("verify")

\* the run ended after a reconciliation of two non-empty results that printed
\* its one verdict, the pandas result having been written to its file
C9_Witness ==
    /\ Ended
    /\ Happened("verify")
    /\ sql_results # <<>> /\ pandas_results # <<>>
    /\ files["pandas"].written
    /\ Verdicts = 1

(* C10, as stated. The operations of a run occur in the order: open, query *)
(* extraction, its write, pandas extraction, its write, reconciliation,    *)
(* close, summary; the summary is reported after the connection is closed. *)
StatedOrder ==
    <<"open", "sql_extract", "save_sql", "pandas_extract", "save_pandas",
      "verify", "close", "summary">>

Position(order, op) == CHOOSE i \in DOMAIN order : order[i] = op

Follows(order) ==
    \A i, j \in DOMAIN trace :
        i < j => Position(order, trace[i]) < Position(order, trace[j])

C10_SummaryAfterClose == Follows(StatedOrder)

(* C10, amended. The operations of a run occur in the order: open, query   *)
(* extraction, its write (only if its result is non-empty), pandas         *)
(* extraction, its write (only if non-empty), reconciliation (only if both *)
(* are non-empty), summary, close: the summary is reported before the      *)
(* connection is closed, the close is the last operation of every run that *)
(* opened the connection, and nothing happens before a successful open.    *)
CodeOrder ==
    <<"open", "sql_extract", "save_sql", "pandas_extract", "save_pandas",
      "verify", "summary", "close">>

C10_EventOrder ==
    /\ Follows(CodeOrder)
    /\ trace # <<>> => trace[1] = "open"
    /\ Happened("save_sql") => sql_results # <<>>
    /\ Happened("save_pandas") => pandas_results # <<>>
    /\ Happened("verify") => sql_results # <<>> /\ pandas_results # <<>>
    /\ Ended /\ Happened("open") =>
          /\ trace[Len(trace)] = "close"
          /\ Happened("sql_extract")
          /\ sql_results # <<>> => Happened("save_sql")
          /\ pandas_results # <<>> => Happened("save_pandas")
          /\ raised["sql"] # "Exception" =>
                Happened("pandas_extract") /\ Happened("summary")

\* a run that carried out all eight operations
C10_Witness ==
    /\ Ended
    /\ Len(trace) = 8
    /\ trace[7] = "summary" /\ trace[8] = "close"

====
